---------------------------- MODULE Spec2Model ----------------------------
(***************************************************************************)
(* State-machine model of the disgord TLRU cache (src/cache.go).           *)
(*                                                                         *)
(* The cache keeps the current user, a channel map with a guild -> channel *)
(* relationship index, and guild / user stores.  Event handlers take a     *)
(* JSON payload and mutate the stores; read accessors return values to the *)
(* caller.  A payload is modelled by the JSON object it encodes: a record  *)
(* of the fields the handlers look at, a flag wf (the bytes are            *)
(* syntactically valid JSON) and, for objects, a field that may carry a    *)
(* value of the wrong JSON type ("bad").  json.Unmarshal into a fresh      *)
(* value yields the decoded value or an error; json.Unmarshal into a live  *)
(* value overwrites the fields the payload carries, keeps the others, and  *)
(* on a type error still leaves the well-typed fields written before       *)
(* returning the error.                                                    *)
(***************************************************************************)
EXTENDS Integers, Sequences, FiniteSets, TLC

\* Number of user ids; member lists hold each user at most once.
NumUsers == 2
\* Number of channel ids; the last one is a direct-message channel (guild 0).
NumChannels == 3

\* Largest number of roles, and of emojis, a guild payload carries.
MaxRoles == 2

GuildIDs == {1, 2}
ChannelIDs == 1..NumChannels
UserIDs == 1..NumUsers

\* A channel id belongs to one guild for its whole life; every guild channel
\* of the model belongs to guild 1, the last channel id to no guild.
HomeGuild(c) == IF c = NumChannels THEN 0 ELSE 1

VARIABLES
    CurrentUser,               \* cache.CurrentUser
    Channels,                  \* cache.Channels: channel id -> channel
    GuildChannelRelationship,  \* cache.GuildChannelRelationship: guild id -> list of channel ids
    Guilds,                    \* cache.Guilds (TLRU): guild id -> guild
    Users,                     \* cache.Users (TLRU): user id -> user
    ReturnGetGuildMembers,     \* cache.ReturnGetGuildMembers (set at construction)
    ret,                       \* the value the last read accessor handed to its caller
    last,                      \* the last call: operation, payload, outcome
    pc,                        \* position of each concurrently running operation
    GuildsLock,                \* holder of cache.Guilds' mutex, or Free
    obs,                       \* what each concurrent reader observed
    Locks,                     \* holders of ChannelMu, cache.Users' mutex and CurrentUserMu
    during                     \* what GetGuild would have returned in each cache state
                               \* between two handlers since the GetGuild in flight began

seqVars == <<CurrentUser, Channels, GuildChannelRelationship, Guilds, Users,
             ReturnGetGuildMembers, ret, last>>
concVars == <<pc, GuildsLock, obs, Locks>>
vars == <<CurrentUser, Channels, GuildChannelRelationship, Guilds, Users,
          ReturnGetGuildMembers, ret, last, pc, GuildsLock, obs, Locks, during>>

\* The stores' contents: what "cache state" means in the claims.
cacheState == <<CurrentUser, Channels, GuildChannelRelationship, Guilds, Users>>

-----------------------------------------------------------------------------
(* Go maps and container/list *)

EmptyMap == [x \in {} |-> 0]
MapSet(m, k, v) == [x \in DOMAIN m \cup {k} |-> IF x = k THEN v ELSE m[x]]
MapDelete(m, k) == [x \in DOMAIN m \ {k} |-> m[x]]
Range(s) == {s[i] : i \in DOMAIN s}
RemoveAt(s, i) == SubSeq(s, 1, i - 1) \o SubSeq(s, i + 1, Len(s))
Occurrences(s, v) == Cardinality({i \in DOMAIN s : s[i] = v})

\* Index of the first element of s equal to v, 0 if there is none.
FirstIndex(s, v) ==
    IF \E i \in DOMAIN s : s[i] = v
    THEN CHOOSE i \in DOMAIN s : s[i] = v /\ \A j \in 1..(i - 1) : s[j] # v
    ELSE 0

-----------------------------------------------------------------------------
(* Relationship index *)

\* Mutant of registerChannelRelationship: guild id 0 is indexed like any other.
registerAnyGuild(rel, guildId, channelId) ==
    IF guildId \in DOMAIN rel
    THEN MapSet(rel, guildId, Append(rel[guildId], channelId))
    ELSE MapSet(rel, guildId, <<channelId>>)

registerChannelRelationship(rel, guildId, channelId) ==
    IF guildId = 0 THEN rel
    ELSE MapSet(rel, guildId,
                Append(IF guildId \in DOMAIN rel THEN rel[guildId] ELSE <<>>,
                       channelId))

\* The scan removes the first match and stops; "blank" is still true when
\* the loop ends iff no element was passed over before the match, i.e. the
\* list was empty or its FIRST element matched.
\* Mutant of destroyChannelRelationship: the index is left as it is.
destroyNothing(rel, guildId, channelId) == rel

destroyChannelRelationship(rel, guildId, channelId) ==
    IF guildId = 0 \/ guildId \notin DOMAIN rel THEN rel
    ELSE LET l == rel[guildId]
             i == FirstIndex(l, channelId)
             blank == Len(l) = 0 \/ l[1] = channelId
         IN  IF blank THEN MapDelete(rel, guildId)
             ELSE MapSet(rel, guildId, IF i = 0 THEN l ELSE RemoveAt(l, i))

-----------------------------------------------------------------------------
(* Payloads and decoding *)

\* Channel object: id, guild_id, name, last_pin_timestamp.  pin is "absent"
\* (key not in the object), "t1" (a timestamp) or "bad" (wrong JSON type).
ChannelPayload(c, n, t) ==
    [wf |-> TRUE, id |-> c, guild_id |-> HomeGuild(c), name |-> n, pin |-> t]
MalformedChannel ==
    [wf |-> FALSE, id |-> 0, guild_id |-> 0, name |-> "", pin |-> "absent"]

\* json.Unmarshal(data, &channel) with a nil channel: error or fresh value.
DecodeChannelErr(p) == ~p.wf \/ p.pin = "bad"
DecodeChannel(p) ==
    [ID |-> p.id, GuildID |-> p.guild_id, Name |-> p.name,
     LastPinTimestamp |-> IF p.pin = "t1" THEN "t1" ELSE "zero"]

\* Mutant of MergeChannel: the stored channel is replaced by the decoded one.
ReplaceChannel(ch, p) == DecodeChannel(p)

\* json.Unmarshal(data, channel) onto a live channel: keys of the payload
\* overwrite, the others stay; an ill-typed key is skipped (and reported).
MergeChannel(ch, p) ==
    [ID |-> p.id, GuildID |-> p.guild_id, Name |-> p.name,
     LastPinTimestamp |-> IF p.pin = "t1" THEN "t1" ELSE ch.LastPinTimestamp]

\* json.Unmarshal(data, &metadata) into idHolder: only the id keys are read.
DecodeIdHolderErr(p) == ~p.wf

NoRet == [acc |-> "none"]
Call(op, p, err, fault, note) ==
    [op |-> op, p |-> p, err |-> err, fault |-> fault, note |-> note]


\* Channel Pins Update: channel_id and last_pin_timestamp ("zero" when the
\* key is missing or null, "bad" when it is no timestamp).
PinsPayload(c, t) == [wf |-> TRUE, channel_id |-> c, ts |-> t]
MalformedPins == [wf |-> FALSE, channel_id |-> 0, ts |-> "zero"]
DecodePinsErr(p) == ~p.wf \/ p.ts = "bad"

\* Guild member as stored in a guild's member list.  User tells whether the
\* embedded User object is set.
Member(u, n, hasUser) == [UserID |-> u, Nick |-> n, User |-> hasUser]

\* Guild object: id and unavailable, plus the optional keys named in keys
\* ("members" with member_count, "channels", "roles", "emojis").  The
\* member_count of a payload is the length of its member list unless the
\* payload is built with WithMemberCount.
GuildPayload(g, un, keys, ms, chs, rs, es) ==
    [wf |-> TRUE, id |-> g, unavailable |-> un, keys |-> keys,
     members |-> ms, member_count |-> Len(ms),
     channels |-> chs, roles |-> rs, emojis |-> es]
MalformedGuild ==
    [wf |-> FALSE, id |-> 0, unavailable |-> FALSE, keys |-> {},
     members |-> <<>>, member_count |-> 0,
     channels |-> <<>>, roles |-> <<>>, emojis |-> <<>>]
\* A guild whose member_count key says n: the gateway lists only part of
\* the members of a large guild.
WithMemberCount(p, n) == [p EXCEPT !.member_count = n]
DecodeGuildErr(p) == ~p.wf

\* json.Unmarshal(data, &guildEvt): a fresh guild.
DecodeGuild(p) ==
    [ID |-> p.id, Unavailable |-> p.unavailable,
     Members |-> IF "members" \in p.keys THEN p.members ELSE <<>>,
     MemberCount |-> IF "members" \in p.keys THEN p.member_count ELSE 0,
     Channels |-> IF "channels" \in p.keys
                  THEN [i \in DOMAIN p.channels |-> DecodeChannel(p.channels[i])]
                  ELSE <<>>,
     Roles |-> IF "roles" \in p.keys THEN p.roles ELSE <<>>,
     Emojis |-> IF "emojis" \in p.keys THEN p.emojis ELSE <<>>]

\* Mutant of MergeGuild: the stored guild is replaced by the decoded one.
ReplaceGuild(g, p) == DecodeGuild(p)

\* json.Unmarshal(data, item) onto the stored guild: the keys the payload
\* carries overwrite, the others stay.
MergeGuild(g, p) ==
    [ID |-> p.id, Unavailable |-> p.unavailable,
     Members |-> IF "members" \in p.keys THEN p.members ELSE g.Members,
     MemberCount |-> IF "members" \in p.keys THEN p.member_count ELSE g.MemberCount,
     Channels |-> IF "channels" \in p.keys
                  THEN [i \in DOMAIN p.channels |-> DecodeChannel(p.channels[i])]
                  ELSE g.Channels,
     Roles |-> IF "roles" \in p.keys THEN p.roles ELSE g.Roles,
     Emojis |-> IF "emojis" \in p.keys THEN p.emojis ELSE g.Emojis]

\* Guild Member Add / Remove: guild_id, user id, and for an add the member's
\* nick and the embedded user's name.
MemberPayload(g, u, n, un) ==
    [wf |-> TRUE, guild_id |-> g, user_id |-> u, nick |-> n, username |-> un]
MalformedMember ==
    [wf |-> FALSE, guild_id |-> 0, user_id |-> 0, nick |-> "", username |-> ""]
DecodeMemberErr(p) == ~p.wf

\* User object (Ready's "user", User Update): username and avatar, the
\* latter "absent", a value or "bad".
UserPayload(n, a) == [wf |-> TRUE, username |-> n, avatar |-> a]
MalformedUser == [wf |-> FALSE, username |-> "", avatar |-> "absent"]
DecodeUserErr(p) == ~p.wf \/ p.avatar = "bad"
MergeUser(u, p) ==
    [Username |-> p.username,
     Avatar |-> IF p.avatar \in {"absent", "bad"} THEN u.Avatar ELSE p.avatar]

-----------------------------------------------------------------------------
(* Read accessors: what each returns in the current state *)

\* What an accessor hands back: val is <<>> for nil and <<v>> for a value,
\* ref tells whether v is the stored object itself (a pointer into the
\* cache) rather than a copy, fault whether the call panicked.
Result(val, ref, fault) == [val |-> val, ref |-> ref, fault |-> fault]

GetChannelResult(id) ==
    IF id \in DOMAIN Channels THEN Result(<<Channels[id]>>, FALSE, FALSE)
    ELSE Result(<<>>, FALSE, FALSE)

\* c.Channels[x].DeepCopy() dereferences a nil channel when a listed id is
\* not in the channel map.
GetGuildChannelsResult(id) ==
    IF id \notin DOMAIN GuildChannelRelationship THEN Result(<<>>, FALSE, FALSE)
    ELSE LET l == GuildChannelRelationship[id]
         IN  IF \E i \in DOMAIN l : l[i] \notin DOMAIN Channels
             THEN Result(<<>>, FALSE, TRUE)
             ELSE Result(<<[i \in DOMAIN l |-> Channels[l[i]]]>>, FALSE, FALSE)

\* The copy keeps the stored guild's embedded channel list unless
\* GetGuildChannels returned a non-nil list.
GetGuildResult(id) ==
    IF id \notin DOMAIN Guilds THEN Result(<<>>, FALSE, FALSE)
    ELSE LET g == Guilds[id]
             cpy == IF ReturnGetGuildMembers THEN g ELSE [g EXCEPT !.Members = <<>>]
             channelsRes == GetGuildChannelsResult(id)
         IN  IF channelsRes.fault THEN Result(<<>>, FALSE, TRUE)
             ELSE IF channelsRes.val # <<>>
             THEN Result(<<[cpy EXCEPT !.Channels = channelsRes.val[1]]>>, FALSE, FALSE)
             ELSE Result(<<cpy>>, FALSE, FALSE)

\* Index of the first member with this user id, 0 if there is none.
MemberIndex(ms, userId) ==
    IF \E i \in DOMAIN ms : ms[i].UserID = userId
    THEN CHOOSE i \in DOMAIN ms :
            ms[i].UserID = userId /\ \A j \in 1..(i - 1) : ms[j].UserID # userId
    ELSE 0

\* The stored member itself is returned, not a copy.
GetMemberResult(guildID, userID) ==
    IF guildID \notin DOMAIN Guilds THEN Result(<<>>, FALSE, FALSE)
    ELSE LET i == MemberIndex(Guilds[guildID].Members, userID)
         IN  IF i = 0 THEN Result(<<>>, FALSE, FALSE)
             ELSE Result(<<Guilds[guildID].Members[i]>>, TRUE, FALSE)

GetGuildEmojiResult(guildID, emojiID) ==
    IF guildID \notin DOMAIN Guilds THEN Result(<<>>, FALSE, FALSE)
    ELSE IF emojiID \in Range(Guilds[guildID].Emojis)
    THEN Result(<<emojiID>>, FALSE, FALSE)
    ELSE Result(<<>>, FALSE, FALSE)

GetGuildEmojisResult(id) ==
    IF id \notin DOMAIN Guilds THEN Result(<<>>, FALSE, FALSE)
    ELSE Result(<<Guilds[id].Emojis>>, FALSE, FALSE)

\* The result slice is sized by the number of EMOJIS and filled by index
\* from the roles: more roles than emojis index past its end, fewer leave
\* nil entries (0).
GetGuildRolesResult(guildID) ==
    IF guildID \notin DOMAIN Guilds THEN Result(<<>>, FALSE, FALSE)
    ELSE LET g == Guilds[guildID]
         IN  IF Len(g.Roles) > Len(g.Emojis) THEN Result(<<>>, FALSE, TRUE)
             ELSE Result(<<[i \in 1..Len(g.Emojis) |->
                              IF i <= Len(g.Roles) THEN g.Roles[i] ELSE 0]>>,
                         FALSE, FALSE)

GetCurrentUserResult == Result(<<CurrentUser>>, FALSE, FALSE)

GetUserResult(id) ==
    IF id \in DOMAIN Users THEN Result(<<Users[id]>>, FALSE, FALSE)
    ELSE Result(<<>>, FALSE, FALSE)

-----------------------------------------------------------------------------
(* Channel handlers *)

\* A panic ends the process: nothing runs after a faulted call.
Alive == ~last.fault

\* A handler has run to its end: a GetGuild in flight has one more cache
\* state to compare its result with.
TrackState ==
    during' = IF pc["GetGuild"].at = "idle" THEN during
              ELSE during \cup {GetGuildResult(pc["GetGuild"].id).val'}

seqFrame == /\ ret' = NoRet
            /\ UNCHANGED ReturnGetGuildMembers
            /\ UNCHANGED concVars
            /\ TrackState

ChannelCreate(p) ==
    /\ Alive
    /\ IF DecodeChannelErr(p)
       THEN /\ UNCHANGED <<Channels, GuildChannelRelationship>>
            /\ last' = Call("ChannelCreate", p, TRUE, FALSE, "decode")
       ELSE IF p.id \in DOMAIN Channels
       THEN /\ Channels' = MapSet(Channels, p.id, MergeChannel(Channels[p.id], p))
            /\ UNCHANGED GuildChannelRelationship
            /\ last' = Call("ChannelCreate", p, FALSE, FALSE, "merge")
       ELSE /\ Channels' = MapSet(Channels, p.id, DecodeChannel(p))
            /\ GuildChannelRelationship' =
                   registerChannelRelationship(GuildChannelRelationship, p.guild_id, p.id)
            /\ last' = Call("ChannelCreate", p, FALSE, FALSE, "insert")
    /\ UNCHANGED <<CurrentUser, Guilds, Users>>
    /\ seqFrame

\* The id is decoded first (idHolder); the full decode of a known channel
\* goes straight onto the stored channel and its error is returned after.
ChannelUpdate(p) ==
    /\ Alive
    /\ IF DecodeIdHolderErr(p)
       THEN /\ UNCHANGED <<Channels, GuildChannelRelationship>>
            /\ last' = Call("ChannelUpdate", p, TRUE, FALSE, "decode")
       ELSE IF p.id \in DOMAIN Channels
       THEN /\ Channels' = MapSet(Channels, p.id, MergeChannel(Channels[p.id], p))
            /\ UNCHANGED GuildChannelRelationship
            /\ last' = Call("ChannelUpdate", p, DecodeChannelErr(p), FALSE, "merge")
       ELSE IF DecodeChannelErr(p)
       THEN /\ UNCHANGED <<Channels, GuildChannelRelationship>>
            /\ last' = Call("ChannelUpdate", p, TRUE, FALSE, "decode")
       ELSE /\ Channels' = MapSet(Channels, p.id, DecodeChannel(p))
            /\ GuildChannelRelationship' =
                   registerChannelRelationship(GuildChannelRelationship, p.guild_id, p.id)
            /\ last' = Call("ChannelUpdate", p, FALSE, FALSE, "insert")
    /\ UNCHANGED <<CurrentUser, Guilds, Users>>
    /\ seqFrame

ChannelDelete(p) ==
    /\ Alive
    /\ IF DecodeChannelErr(p)
       THEN /\ UNCHANGED <<Channels, GuildChannelRelationship>>
            /\ last' = Call("ChannelDelete", p, TRUE, FALSE, "decode")
       ELSE /\ Channels' = MapDelete(Channels, p.id)
            /\ GuildChannelRelationship' =
                   destroyChannelRelationship(GuildChannelRelationship, p.guild_id, p.id)
            /\ last' = Call("ChannelDelete", p, FALSE, FALSE, "delete")
    /\ UNCHANGED <<CurrentUser, Guilds, Users>>
    /\ seqFrame

\* Mutant of ChannelPinsUpdate: the zero timestamp is written like any other.
ChannelPinsUpdateWritesZero(p) ==
    /\ Alive
    /\ IF DecodePinsErr(p)
       THEN /\ UNCHANGED Channels
            /\ last' = Call("ChannelPinsUpdate", p, TRUE, FALSE, "decode")
       ELSE IF p.channel_id \in DOMAIN Channels
       THEN /\ Channels' = [Channels EXCEPT ![p.channel_id].LastPinTimestamp = p.ts]
            /\ last' = Call("ChannelPinsUpdate", p, FALSE, FALSE,
                            IF p.ts = "zero" THEN "zero" ELSE "set")
       ELSE /\ UNCHANGED Channels
            /\ last' = Call("ChannelPinsUpdate", p, FALSE, FALSE, "unknown")
    /\ UNCHANGED <<CurrentUser, GuildChannelRelationship, Guilds, Users>>
    /\ seqFrame

ChannelPinsUpdate(p) ==
    /\ Alive
    /\ IF DecodePinsErr(p)
       THEN /\ UNCHANGED Channels
            /\ last' = Call("ChannelPinsUpdate", p, TRUE, FALSE, "decode")
       ELSE IF p.ts = "zero"
       THEN /\ UNCHANGED Channels
            /\ last' = Call("ChannelPinsUpdate", p, FALSE, FALSE, "zero")
       ELSE IF p.channel_id \in DOMAIN Channels
       THEN /\ Channels' = [Channels EXCEPT ![p.channel_id].LastPinTimestamp = p.ts]
            /\ last' = Call("ChannelPinsUpdate", p, FALSE, FALSE, "set")
       ELSE /\ UNCHANGED Channels
            /\ last' = Call("ChannelPinsUpdate", p, FALSE, FALSE, "unknown")
    /\ UNCHANGED <<CurrentUser, GuildChannelRelationship, Guilds, Users>>
    /\ seqFrame

-----------------------------------------------------------------------------
(* Guild handlers *)

\* Mutant of setChannelsChannels: the channels of the old list are kept.
setChannelsKeepOld(chans, rel, guildId, evChannels) ==
    LET new == {evChannels[i].ID : i \in DOMAIN evChannels}
    IN  [x \in DOMAIN chans \cup new |->
            IF x \in new
            THEN evChannels[CHOOSE i \in DOMAIN evChannels : evChannels[i].ID = x]
            ELSE chans[x]]

\* setChannels of GuildCreate: drop the channels of the old list from the
\* channel map, then install the event's channels as copies.
setChannelsChannels(chans, rel, guildId, evChannels) ==
    LET old == IF guildId \in DOMAIN rel THEN Range(rel[guildId]) ELSE {}
        new == {evChannels[i].ID : i \in DOMAIN evChannels}
        lastOf(x) == CHOOSE i \in DOMAIN evChannels :
                        /\ evChannels[i].ID = x
                        /\ \A j \in DOMAIN evChannels : evChannels[j].ID = x => j <= i
    IN  [x \in (DOMAIN chans \ old) \cup new |->
            IF x \in new THEN evChannels[lastOf(x)] ELSE chans[x]]

setChannelsRelationship(rel, guildId, evChannels) ==
    MapSet(rel, guildId, [i \in DOMAIN evChannels |-> evChannels[i].ID])

GuildCreate(p) ==
    /\ Alive
    /\ IF DecodeGuildErr(p)
       THEN /\ UNCHANGED <<Guilds, Channels, GuildChannelRelationship>>
            /\ last' = Call("GuildCreate", p, TRUE, FALSE, "decode")
       ELSE IF p.id \in DOMAIN Guilds /\ ~Guilds[p.id].Unavailable
                /\ Len(Guilds[p.id].Members) > 0
       THEN /\ Guilds' = MapSet(Guilds, p.id, MergeGuild(Guilds[p.id], p))
            /\ UNCHANGED <<Channels, GuildChannelRelationship>>
            /\ last' = Call("GuildCreate", p, FALSE, FALSE, "merge")
       ELSE IF p.id \in DOMAIN Guilds /\ ~Guilds[p.id].Unavailable
       THEN /\ UNCHANGED <<Guilds, Channels, GuildChannelRelationship>>
            /\ last' = Call("GuildCreate", p, FALSE, FALSE, "duplicate")
       ELSE /\ Guilds' = MapSet(Guilds, p.id, DecodeGuild(p))
            /\ Channels' = setChannelsChannels(Channels, GuildChannelRelationship,
                                               p.id, DecodeGuild(p).Channels)
            /\ GuildChannelRelationship' =
                   setChannelsRelationship(GuildChannelRelationship, p.id,
                                           DecodeGuild(p).Channels)
            /\ last' = Call("GuildCreate", p, FALSE, FALSE,
                            IF p.id \in DOMAIN Guilds THEN "replace" ELSE "install")
    /\ UNCHANGED <<CurrentUser, Users>>
    /\ seqFrame

GuildUpdate(p) ==
    /\ Alive
    /\ IF DecodeGuildErr(p)
       THEN /\ UNCHANGED Guilds
            /\ last' = Call("GuildUpdate", p, TRUE, FALSE, "decode")
       ELSE IF p.id \in DOMAIN Guilds /\ ~Guilds[p.id].Unavailable
       THEN /\ Guilds' = MapSet(Guilds, p.id, MergeGuild(Guilds[p.id], p))
            /\ last' = Call("GuildUpdate", p, FALSE, FALSE, "merge")
       ELSE /\ Guilds' = MapSet(Guilds, p.id, DecodeGuild(p))
            /\ last' = Call("GuildUpdate", p, FALSE, FALSE,
                            IF p.id \in DOMAIN Guilds THEN "replace" ELSE "install")
    /\ UNCHANGED <<CurrentUser, Channels, GuildChannelRelationship, Users>>
    /\ seqFrame

\* Guild Delete carries an unavailable-guild stub: only its id is used.
GuildDeleteChannels(chans, rel, guildId) ==
    IF guildId \in DOMAIN rel
    THEN [x \in DOMAIN chans \ Range(rel[guildId]) |-> chans[x]]
    ELSE chans

GuildDelete(p) ==
    /\ Alive
    /\ IF DecodeGuildErr(p)
       THEN /\ UNCHANGED <<Guilds, Channels, GuildChannelRelationship>>
            /\ last' = Call("GuildDelete", p, TRUE, FALSE, "decode")
       ELSE /\ Guilds' = MapDelete(Guilds, p.id)
            /\ Channels' = GuildDeleteChannels(Channels, GuildChannelRelationship, p.id)
            /\ GuildChannelRelationship' = MapDelete(GuildChannelRelationship, p.id)
            /\ last' = Call("GuildDelete", p, FALSE, FALSE, "delete")
    /\ UNCHANGED <<CurrentUser, Users>>
    /\ seqFrame

-----------------------------------------------------------------------------
(* Member handlers *)

\* guild.Members[i] = guild.Members[len-1]; guild.Members = guild.Members[:len-1]
SwapRemove(ms, i) ==
    [j \in 1..(Len(ms) - 1) |-> IF j = i THEN ms[Len(ms)] ELSE ms[j]]

\* Mutant of removeLoop: MemberCount is lowered whether or not the user is
\* listed.
removeLoopAlwaysCounts(ms, count, i, n, userId) ==
    [Members |-> ms, MemberCount |-> count - 1, fault |-> FALSE]

\* The loop "for i := range guild.Members" of GuildMemberRemove: the range
\* is fixed to the n elements the list had on entry, while the body indexes
\* the list as it is now, which panics once i is past its end.
RECURSIVE removeLoop(_, _, _, _, _)
removeLoop(ms, count, i, n, userId) ==
    IF i > n THEN [Members |-> ms, MemberCount |-> count, fault |-> FALSE]
    ELSE IF i > Len(ms) THEN [Members |-> ms, MemberCount |-> count, fault |-> TRUE]
    ELSE IF ms[i].UserID = userId
    THEN removeLoop(SwapRemove(ms, i), count - 1, i + 1, n, userId)
    ELSE removeLoop(ms, count, i + 1, n, userId)

GuildMemberRemove(p) ==
    /\ Alive
    /\ IF DecodeMemberErr(p)
       THEN /\ UNCHANGED Guilds
            /\ last' = Call("GuildMemberRemove", p, TRUE, FALSE, "decode")
       ELSE IF p.guild_id \in DOMAIN Guilds
       THEN LET g == Guilds[p.guild_id]
                r == removeLoop(g.Members, g.MemberCount, 1, Len(g.Members), p.user_id)
            IN  /\ Guilds' = [Guilds EXCEPT ![p.guild_id].Members = r.Members,
                                            ![p.guild_id].MemberCount = r.MemberCount]
                /\ last' = Call("GuildMemberRemove", p, FALSE, r.fault,
                                IF MemberIndex(g.Members, p.user_id) = 0
                                THEN "unknown" ELSE "remove")
       ELSE /\ UNCHANGED Guilds
            /\ last' = Call("GuildMemberRemove", p, FALSE, FALSE, "noguild")
    /\ UNCHANGED <<CurrentUser, Channels, GuildChannelRelationship, Users>>
    /\ seqFrame

\* Mutant of addMember: a listed user is appended again instead of merged.
addMemberAlwaysAppends(g, p) ==
    [g EXCEPT !.Members = Append(g.Members, Member(p.user_id, p.nick, FALSE)),
              !.MemberCount = g.MemberCount + 1]

\* The member part of GuildMemberAdd on the stored guild: merge onto the
\* first member with the user id, or append a copy; then member.User = nil.
addMember(g, p) ==
    LET i == MemberIndex(g.Members, p.user_id)
    IN  IF i # 0
        THEN [g EXCEPT !.Members[i] = Member(p.user_id, p.nick, FALSE)]
        ELSE [g EXCEPT !.Members = Append(g.Members, Member(p.user_id, p.nick, FALSE)),
                       !.MemberCount = g.MemberCount + 1]

\* c.Users.Set only when the user is not stored yet.
addUser(users, p) ==
    IF p.user_id \in DOMAIN users THEN users
    ELSE MapSet(users, p.user_id, [ID |-> p.user_id, Username |-> p.username])

GuildMemberAdd(p) ==
    /\ Alive
    /\ IF DecodeMemberErr(p)
       THEN /\ UNCHANGED <<Guilds, Users>>
            /\ last' = Call("GuildMemberAdd", p, TRUE, FALSE, "decode")
       ELSE /\ Users' = addUser(Users, p)
            /\ IF p.guild_id \in DOMAIN Guilds
               THEN /\ Guilds' = MapSet(Guilds, p.guild_id, addMember(Guilds[p.guild_id], p))
                    /\ last' = Call("GuildMemberAdd", p, FALSE, FALSE,
                                    IF MemberIndex(Guilds[p.guild_id].Members, p.user_id) # 0
                                    THEN "merge" ELSE "append")
               ELSE /\ UNCHANGED Guilds
                    /\ last' = Call("GuildMemberAdd", p, FALSE, FALSE, "noguild")
    /\ UNCHANGED <<CurrentUser, Channels, GuildChannelRelationship>>
    /\ seqFrame

-----------------------------------------------------------------------------
(* Current user handlers *)

\* Ready embeds the cached current user in the value it decodes into, so
\* the "user" object of the payload is written onto the cached user.
Ready(p) ==
    /\ Alive
    /\ IF ~p.wf
       THEN /\ UNCHANGED CurrentUser
            /\ last' = Call("Ready", p, TRUE, FALSE, "decode")
       ELSE /\ CurrentUser' = MergeUser(CurrentUser, p)
            /\ last' = Call("Ready", p, DecodeUserErr(p), FALSE, "merge")
    /\ UNCHANGED <<Channels, GuildChannelRelationship, Guilds, Users>>
    /\ seqFrame

UserUpdate(p) ==
    /\ Alive
    /\ IF ~p.wf
       THEN /\ UNCHANGED CurrentUser
            /\ last' = Call("UserUpdate", p, TRUE, FALSE, "decode")
       ELSE /\ CurrentUser' = MergeUser(CurrentUser, p)
            /\ last' = Call("UserUpdate", p, DecodeUserErr(p), FALSE, "merge")
    /\ UNCHANGED <<Channels, GuildChannelRelationship, Guilds, Users>>
    /\ seqFrame

-----------------------------------------------------------------------------
(* Read accessors: the calls *)

\* The accessor acc called with arguments a1, a2 in the current state.
Read(acc, a1, a2) ==
    CASE acc = "GetChannel" -> GetChannelResult(a1)
      [] acc = "GetGuildChannels" -> GetGuildChannelsResult(a1)
      [] acc = "GetGuild" -> GetGuildResult(a1)
      [] acc = "GetMember" -> GetMemberResult(a1, a2)
      [] acc = "GetGuildEmoji" -> GetGuildEmojiResult(a1, a2)
      [] acc = "GetGuildEmojis" -> GetGuildEmojisResult(a1)
      [] acc = "GetGuildRoles" -> GetGuildRolesResult(a1)
      [] acc = "GetCurrentUser" -> GetCurrentUserResult
      [] acc = "GetUser" -> GetUserResult(a1)

\* A read accessor returns to its caller; the stores are not written.
Return(acc, a1, a2) ==
    /\ Alive
    /\ ret' = [acc |-> acc, a1 |-> a1, a2 |-> a2,
               val |-> Read(acc, a1, a2).val, ref |-> Read(acc, a1, a2).ref,
               mutated |-> FALSE]
    /\ last' = Call(acc, <<a1, a2>>, FALSE, Read(acc, a1, a2).fault, "read")
    /\ UNCHANGED <<CurrentUser, Channels, GuildChannelRelationship, Guilds, Users,
                   ReturnGetGuildMembers>>
    /\ UNCHANGED concVars
    /\ UNCHANGED during

GetChannel(id) == Return("GetChannel", id, 0)
GetGuildChannels(id) == Return("GetGuildChannels", id, 0)
GetGuild(id) == Return("GetGuild", id, 0)
GetMember(guildID, userID) == Return("GetMember", guildID, userID)
GetGuildEmoji(guildID, emojiID) == Return("GetGuildEmoji", guildID, emojiID)
GetGuildEmojis(id) == Return("GetGuildEmojis", id, 0)
GetGuildRoles(guildID) == Return("GetGuildRoles", guildID, 0)
GetCurrentUser == Return("GetCurrentUser", 0, 0)
GetUser(id) == Return("GetUser", id, 0)

\* The caller writes to the value it was handed (here: a field it sets to a
\* value of its own).  A copy absorbs the write; a pointer into the cache
\* passes it on to the stored object, which only GetMember hands out.
CallerNick == "scribble"
CallerMutate ==
    /\ Alive
    /\ ret.acc # "none"
    /\ ret.val # <<>>
    /\ ~ret.mutated
    /\ ret' = [ret EXCEPT !.mutated = TRUE]
    /\ IF ret.ref
       THEN Guilds' = [Guilds EXCEPT
                ![ret.a1].Members[MemberIndex(Guilds[ret.a1].Members, ret.a2)].Nick =
                    CallerNick]
       ELSE UNCHANGED Guilds
    /\ last' = Call("CallerMutate", <<ret.a1, ret.a2>>, FALSE, FALSE, ret.acc)
    /\ UNCHANGED <<CurrentUser, Channels, GuildChannelRelationship, Users,
                   ReturnGetGuildMembers>>
    /\ UNCHANGED concVars
    /\ UNCHANGED during

-----------------------------------------------------------------------------
(* Construction and event streams *)

\* NewCache: an empty current user, empty maps and stores.
InitCache ==
    /\ CurrentUser = [Username |-> "", Avatar |-> ""]
    /\ Channels = EmptyMap
    /\ GuildChannelRelationship = EmptyMap
    /\ Guilds = EmptyMap
    /\ Users = EmptyMap
    /\ ret = NoRet
    /\ last = Call("NewCache", <<>>, FALSE, FALSE, "")

\* The operations that may run concurrently with each other, one goroutine
\* each, and the position of a goroutine that runs none.
Procs == {"GuildMemberAdd", "GuildMemberRemove", "GetGuild", "GetGuild2", "GetMember"}
\* The goroutines running GetGuild.
Readers == {"GetGuild", "GetGuild2"}
Idle == [at |-> "idle"]
Free == "free"

\* No operation is in flight (the handlers above run one at a time).
InitIdle ==
    /\ pc = [q \in Procs |-> Idle]
    /\ GuildsLock = Free
    /\ obs = EmptyMap
    /\ Locks = [ChannelMu |-> Free, ChannelMuReaders |-> {}, Users |-> Free,
                CurrentUserMu |-> Free]
    /\ during = {}

\* Channel events for the channel ids cs, with names ns and pin timestamps
\* ts ("absent", "t1", or the ill-typed "bad").
ChannelEventsOf(cs, ns, ts) == {ChannelPayload(c, n, t) : c \in cs, n \in ns, t \in ts}
PinsEventsOf(cs, ts) == {PinsPayload(c, t) : c \in cs, t \in ts}

\* The channel lists a guild event may embed: any subset of the guild's
\* channels, in ascending order of id, named ns.
RECURSIVE Ascending(_)
Ascending(S) ==
    IF S = {} THEN <<>>
    ELSE LET m == CHOOSE x \in S : \A y \in S : x <= y
         IN  <<m>> \o Ascending(S \ {m})
GuildChannelLists(g) ==
    {[i \in DOMAIN Ascending(S) |-> ChannelPayload(Ascending(S)[i], "a", "absent")] :
        S \in SUBSET {c \in ChannelIDs : HomeGuild(c) = g}}

\* The member lists a guild event may carry: the first j <= k users, each
\* with its embedded user and nick "x".
GuildMemberLists(k) == {[i \in 1..j |-> Member(i, "x", TRUE)] : j \in 0..k}

GuildStub(g, un) == GuildPayload(g, un, {}, <<>>, <<>>, <<>>, <<>>)
GuildFull(g, un, ms, chs) ==
    GuildPayload(g, un, {"members", "channels"}, ms, chs, <<>>, <<>>)

-----------------------------------------------------------------------------
(* Channel map and relationship index under channel and guild events *)

ChannelEvents ==
    ChannelEventsOf({1}, {"a", "b"}, {"absent", "t1", "bad"})
        \cup ChannelEventsOf(ChannelIDs \ {1}, {"a"}, {"absent"})
        \cup {MalformedChannel}
ChannelDeleteEvents == ChannelEventsOf(ChannelIDs, {"a"}, {"absent"})
IndexGuildEvents ==
    {GuildFull(1, FALSE, <<>>, chs) : chs \in GuildChannelLists(1)}
        \cup {GuildStub(2, FALSE)}
GuildDeleteEvents == {GuildStub(g, TRUE) : g \in GuildIDs}

InitChannel ==
    /\ InitCache
    /\ InitIdle
    /\ ReturnGetGuildMembers = TRUE

NextChannel ==
    \/ \E p \in ChannelEvents : ChannelCreate(p)
    \/ \E p \in ChannelEvents : ChannelUpdate(p)
    \/ \E p \in ChannelDeleteEvents : ChannelDelete(p)
    \/ \E p \in IndexGuildEvents : GuildCreate(p)
    \/ \E p \in GuildDeleteEvents : GuildDelete(p)
    \/ \E g \in GuildIDs : GetGuildChannels(g)

SpecChannel == InitChannel /\ [][NextChannel]_vars

\* Channel events and guild deletions only.
NextChannelOnly ==
    \/ \E p \in ChannelEvents : ChannelCreate(p)
    \/ \E p \in ChannelEvents : ChannelUpdate(p)
    \/ \E p \in ChannelDeleteEvents : ChannelDelete(p)
    \/ \E p \in GuildDeleteEvents : GuildDelete(p)

SpecChannelOnly == InitChannel /\ [][NextChannelOnly]_vars

\* The channel ids held anywhere in the relationship index.
Indexed ==
    UNION {Range(GuildChannelRelationship[g]) : g \in DOMAIN GuildChannelRelationship}

\* How often channel id c is registered, over all guilds.
Registrations(rel, c) ==
    LET RECURSIVE Sum(_)
        Sum(G) == IF G = {} THEN 0
                  ELSE LET g == CHOOSE x \in G : TRUE
                       IN  Occurrences(rel[g], c) + Sum(G \ {g})
    IN  Sum(DOMAIN rel)

\* C3: once a GuildDelete for guild g has been applied, no channel of g is
\* left in the channel map or in any list of the relationship index,
\* whatever channel events came before.
C3_DeletedGuildLeavesNoChannel ==
    (last.op = "GuildDelete" /\ ~last.err) =>
        \A c \in ChannelIDs :
            HomeGuild(c) = last.p.id => c \notin DOMAIN Channels /\ c \notin Indexed

\* C6: a ChannelCreate that inserted a channel of a guild, followed at once
\* by a second ChannelCreate for the same id with another payload, leaves
\* the channel stored with the second payload's fields over the first's
\* (a pin timestamp the second does not carry is the first's), and
\* registered exactly once, under its guild.
C6_SecondCreateMerges ==
    [][(/\ last.op = "ChannelCreate" /\ last.note = "insert"
        /\ last'.op = "ChannelCreate" /\ ~last'.err
        /\ last'.p.id = last.p.id /\ last'.p # last.p
        /\ last.p.guild_id # 0)
       => /\ last.p.id \in DOMAIN Channels'
          /\ Channels'[last.p.id] =
                [ID |-> last.p.id, GuildID |-> last'.p.guild_id,
                 Name |-> last'.p.name,
                 LastPinTimestamp |->
                    IF last'.p.pin = "t1" \/ last.p.pin = "t1" THEN "t1" ELSE "zero"]
          /\ Registrations(GuildChannelRelationship', last.p.id) = 1
          /\ Occurrences(GuildChannelRelationship'[last.p.guild_id], last.p.id) = 1
      ]_vars

\* C6 witness: a second create has been merged onto a stored channel that
\* keeps a pin timestamp the second payload does not carry.
C6_Witness ==
    /\ last.op = "ChannelCreate" /\ last.note = "merge"
    /\ last.p.pin = "absent" /\ last.p.name = "b"
    /\ Channels[last.p.id] =
          [ID |-> last.p.id, GuildID |-> 1, Name |-> "b", LastPinTimestamp |-> "t1"]
    /\ Registrations(GuildChannelRelationship, last.p.id) = 1

-----------------------------------------------------------------------------
(* Guild 1 created, updated and deleted, with its channels *)

GuildChannels == {c \in ChannelIDs : HomeGuild(c) = 1}

\* Guild Create for guild 1: stubs, full objects (available or not, with at
\* most one member, any of the guild's channels), and an object carrying
\* members but no channels key.
GuildCreateEvents ==
    {GuildStub(1, un) : un \in BOOLEAN}
        \cup {GuildFull(1, un, ms, chs) :
                un \in BOOLEAN, ms \in GuildMemberLists(1), chs \in GuildChannelLists(1)}
        \cup {GuildPayload(1, FALSE, {"members"}, <<Member(1, "x", TRUE)>>,
                           <<>>, <<>>, <<>>)}
GuildUpdateEvents ==
    {GuildStub(1, un) : un \in BOOLEAN}
        \cup {GuildPayload(1, FALSE, {"members"}, <<Member(1, "x", TRUE)>>,
                           <<>>, <<>>, <<>>)}

NextGuild ==
    \/ \E p \in GuildCreateEvents : GuildCreate(p)
    \/ \E p \in GuildUpdateEvents : GuildUpdate(p)
    \/ \E p \in {GuildStub(1, TRUE)} : GuildDelete(p)
    \/ \E p \in ChannelEventsOf(GuildChannels, {"b"}, {"absent"}) : ChannelCreate(p)
    \/ \E p \in ChannelEventsOf(GuildChannels, {"a"}, {"absent"}) : ChannelDelete(p)
    \/ GetGuild(1)

SpecGuild == InitChannel /\ [][NextGuild]_vars

\* The channel ids of a guild event's channel list, in order.
EventChannelIDs(p) == [i \in DOMAIN p.channels |-> p.channels[i].id]

\* Two Guild Create events for the same guild, one right after the other,
\* the first one having been stored.
TwoGuildCreates ==
    /\ last.op = "GuildCreate" /\ last.note \in {"install", "replace"}
    /\ last'.op = "GuildCreate" /\ ~last'.err
    /\ last'.p.id = last.p.id

\* The first event's channels are all still stored and make up the guild's
\* index list.
FirstChannelsKept ==
    /\ \A i \in DOMAIN last.p.channels : last.p.channels[i].id \in DOMAIN Channels'
    /\ last.p.id \in DOMAIN GuildChannelRelationship'
    /\ GuildChannelRelationship'[last.p.id] = EventChannelIDs(last.p)

\* C7 as stated: after GuildCreate(A, available, with channels) and then
\* GuildCreate(A, available, with members), the stored guild carries the
\* second event's members and the first event's channels are still stored
\* and indexed.
C7_SecondCreateAlwaysMerges ==
    [][(/\ TwoGuildCreates
        /\ ~last.p.unavailable /\ Len(last.p.channels) > 0
        /\ ~last'.p.unavailable /\ Len(last'.p.members) > 0)
       => /\ Guilds'[last.p.id].Members = last'.p.members
          /\ FirstChannelsKept
      ]_vars

\* C7 amended: what the second event does depends on the STORED guild.  If
\* it has members (the first event carried some), the second event is
\* merged onto it: its members replace the stored ones and a key it does
\* not carry (channels) keeps the stored value.  If it has none, the second
\* event is dropped and the stored guild stays as it was.  Either way the
\* first event's channels stay stored and indexed.
C7_SecondCreateMergesIfMembers ==
    [][(/\ TwoGuildCreates
        /\ ~last.p.unavailable /\ Len(last.p.channels) > 0
        /\ ~last'.p.unavailable /\ Len(last'.p.members) > 0)
       => /\ IF Len(last.p.members) > 0
             THEN /\ Guilds'[last.p.id].Members = last'.p.members
                  /\ Guilds'[last.p.id].MemberCount = Len(last'.p.members)
                  /\ "channels" \notin last'.p.keys =>
                        Guilds'[last.p.id].Channels = Guilds[last.p.id].Channels
             ELSE Guilds' = Guilds
          /\ FirstChannelsKept
      ]_vars

\* C7 witness: a second create carrying members but no channels key has
\* been merged onto a stored guild that keeps its embedded channels, with
\* the guild's channels still stored and indexed.
C7_Witness ==
    /\ last.op = "GuildCreate" /\ last.note = "merge"
    /\ "channels" \notin last.p.keys
    /\ Guilds[1].Members = last.p.members
    /\ Len(Guilds[1].Channels) = Cardinality(GuildChannels)
    /\ 1 \in DOMAIN GuildChannelRelationship
    /\ Len(GuildChannelRelationship[1]) = Cardinality(GuildChannels)
    /\ GuildChannels \subseteq DOMAIN Channels

\* C8: GuildCreate(A, unavailable) followed at once by GuildCreate(A,
\* available) stores the second event's guild as decoded, makes A's index
\* list the second event's channel ids in order with each of them stored,
\* and leaves no channel that only the first event carried in the channel
\* map or in A's list.
C8_AvailableAgainReseeds ==
    [][(/\ TwoGuildCreates
        /\ last.p.unavailable /\ ~last'.p.unavailable)
       => /\ Guilds'[last.p.id] =
                [ID |-> last.p.id, Unavailable |-> FALSE,
                 Members |-> IF "members" \in last'.p.keys THEN last'.p.members ELSE <<>>,
                 MemberCount |-> IF "members" \in last'.p.keys
                                 THEN Len(last'.p.members) ELSE 0,
                 Channels |-> IF "channels" \in last'.p.keys
                              THEN [i \in DOMAIN last'.p.channels |->
                                       [ID |-> last'.p.channels[i].id,
                                        GuildID |-> last'.p.channels[i].guild_id,
                                        Name |-> last'.p.channels[i].name,
                                        LastPinTimestamp |-> "zero"]]
                              ELSE <<>>,
                 Roles |-> <<>>, Emojis |-> <<>>]
          /\ last.p.id \in DOMAIN GuildChannelRelationship'
          /\ GuildChannelRelationship'[last.p.id] =
                IF "channels" \in last'.p.keys THEN EventChannelIDs(last'.p) ELSE <<>>
          /\ \A i \in DOMAIN Guilds'[last.p.id].Channels :
                /\ Guilds'[last.p.id].Channels[i].ID \in DOMAIN Channels'
                /\ Channels'[Guilds'[last.p.id].Channels[i].ID] =
                       Guilds'[last.p.id].Channels[i]
          /\ \A c \in Range(EventChannelIDs(last.p)) \ Range(EventChannelIDs(last'.p)) :
                c \notin DOMAIN Channels' /\ c \notin Indexed'
      ]_vars

\* C8 witness: an available guild has replaced an unavailable one, and a
\* channel is gone that only the replaced guild listed.
C8_Witness ==
    /\ last.op = "GuildCreate" /\ last.note = "replace" /\ ~last.p.unavailable
    /\ Len(last.p.channels) > 0
    /\ GuildChannelRelationship[1] = EventChannelIDs(last.p)
    /\ \E c \in GuildChannels : c \notin Range(EventChannelIDs(last.p))
                                /\ c \notin DOMAIN Channels

\* C10: the channels of the guild GetGuild returns are the copies of the
\* channels registered for it, and none when it has no index entry; never
\* the list embedded in the stored guild.
C10_GetGuildChannelsFromIndex ==
    (last.op = "GetGuild" /\ ~last.fault /\ ret.val # <<>>) =>
        ret.val[1].Channels =
            IF ret.a1 \in DOMAIN GuildChannelRelationship
            THEN [i \in DOMAIN GuildChannelRelationship[ret.a1] |->
                     Channels[GuildChannelRelationship[ret.a1][i]]]
            ELSE <<>>

-----------------------------------------------------------------------------
(* Guild 1 and its members *)

\* Guild Create for guild 1 with the first j users as members; member adds
\* and removals for guild 1 and for guild 2, which is never cached here.
MemberGuildEvents ==
    {GuildFull(1, FALSE, ms, <<>>) : ms \in GuildMemberLists(NumUsers)}
MemberAddEvents ==
    {MemberPayload(g, u, n, "u") : g \in GuildIDs, u \in UserIDs, n \in {"x", "y"}}
        \cup {MalformedMember}
MemberRemoveEvents ==
    {MemberPayload(g, u, "", "") : g \in GuildIDs, u \in UserIDs}
        \cup {MalformedMember}

InitMember ==
    /\ InitCache
    /\ InitIdle
    /\ ReturnGetGuildMembers \in BOOLEAN

NextMember ==
    \/ \E p \in MemberGuildEvents : GuildCreate(p)
    \/ \E p \in MemberAddEvents : GuildMemberAdd(p)
    \/ \E p \in MemberRemoveEvents : GuildMemberRemove(p)
    \/ \E u \in UserIDs : GetMember(1, u)
    \/ \E u \in UserIDs : GetUser(u)
    \/ GetGuild(1)
    \/ CallerMutate

SpecMember == InitMember /\ [][NextMember]_vars

\* C1: after the caller wrote to a value a read accessor handed out, with
\* no event handler in between, the same read returns what it returned
\* before the write.
C1_CopyOnRead ==
    last.op = "CallerMutate" => Read(ret.acc, ret.a1, ret.a2).val = ret.val

\* C4: GuildMemberRemove for a cached guild that lists the user completes
\* without a fault, leaves exactly the other members, and lowers
\* MemberCount by one.
C4_RemoveAtAnyPosition ==
    [][(last'.op = "GuildMemberRemove" /\ last'.note = "remove")
       => LET before == Guilds[last'.p.guild_id]
              after == Guilds'[last'.p.guild_id]
          IN  /\ ~last'.fault
              /\ Len(after.Members) = Len(before.Members) - 1
              /\ Range(after.Members) =
                    {m \in Range(before.Members) : m.UserID # last'.p.user_id}
              /\ after.MemberCount = before.MemberCount - 1
      ]_vars

\* C5: GuildMemberAdd for a cached guild.  A user already listed: that
\* member takes the payload's fields in place, the other members, the list
\* length and MemberCount stay.  A user not listed: one member is appended
\* and MemberCount goes up by one.  In both cases the stored member's
\* embedded User is empty.
C5_AddMergesOrAppends ==
    [][(/\ last'.op = "GuildMemberAdd" /\ ~last'.err
        /\ last'.p.guild_id \in DOMAIN Guilds)
       => LET before == Guilds[last'.p.guild_id]
              after == Guilds'[last'.p.guild_id]
              uid == last'.p.user_id
              new == [UserID |-> uid, Nick |-> last'.p.nick, User |-> FALSE]
          IN  IF \E i \in DOMAIN before.Members : before.Members[i].UserID = uid
              THEN /\ Len(after.Members) = Len(before.Members)
                   /\ after.MemberCount = before.MemberCount
                   /\ \E i \in DOMAIN before.Members :
                         /\ before.Members[i].UserID = uid
                         /\ after.Members[i] = new
                         /\ \A j \in DOMAIN before.Members :
                               j # i => after.Members[j] = before.Members[j]
              ELSE /\ after.Members = before.Members \o <<new>>
                   /\ after.MemberCount = before.MemberCount + 1
      ]_vars

\* C5 witness: an add for a listed user has rewritten that member in
\* place (new nick, embedded User emptied) in a list of two.
C5_Witness ==
    /\ last.op = "GuildMemberAdd" /\ last.note = "merge" /\ last.p.nick = "y"
    /\ Len(Guilds[1].Members) = 2 /\ Guilds[1].MemberCount = 2
    /\ Guilds[1].Members[1] = [UserID |-> last.p.user_id, Nick |-> "y", User |-> FALSE]
    /\ Guilds[1].Members[2].User

-----------------------------------------------------------------------------
(* Every handler and accessor, on one channel, one guild and one user *)

\* Each event kind comes well formed, with an ill-typed field where the
\* decoded type has one in the model, and as bytes that are no JSON at all.
AllChannelEvents ==
    ChannelEventsOf({1}, {"a", "b"}, {"absent", "bad"}) \cup {MalformedChannel}
AllChannelDeleteEvents == ChannelEventsOf({1}, {"a"}, {"absent"}) \cup {MalformedChannel}
AllPinsEvents == PinsEventsOf({1}, {"zero", "t1", "bad"}) \cup {MalformedPins}
AllGuildCreateEvents ==
    {GuildPayload(1, FALSE, {"members", "channels", "roles", "emojis"},
                  ms, <<ChannelPayload(1, "a", "absent")>>, <<1>>, es) :
        ms \in GuildMemberLists(1), es \in {<<>>, <<1>>}}
        \cup {MalformedGuild}
AllGuildUpdateEvents == {GuildStub(1, FALSE), MalformedGuild}
AllGuildDeleteEvents == {GuildStub(1, TRUE), MalformedGuild}
AllMemberAddEvents == {MemberPayload(1, 1, "y", "u"), MalformedMember}
AllMemberRemoveEvents == {MemberPayload(1, 1, "", ""), MalformedMember}
AllUserEvents ==
    {UserPayload(n, a) : n \in {"u", "v"}, a \in {"absent", "bad"}} \cup {MalformedUser}

Init ==
    /\ InitCache
    /\ InitIdle
    /\ ReturnGetGuildMembers \in BOOLEAN

Next ==
    \/ \E p \in AllUserEvents : Ready(p)
    \/ \E p \in AllChannelEvents : ChannelCreate(p)
    \/ \E p \in AllChannelEvents : ChannelUpdate(p)
    \/ \E p \in AllChannelDeleteEvents : ChannelDelete(p)
    \/ \E p \in AllPinsEvents : ChannelPinsUpdate(p)
    \/ \E p \in AllUserEvents : UserUpdate(p)
    \/ \E p \in AllMemberRemoveEvents : GuildMemberRemove(p)
    \/ \E p \in AllMemberAddEvents : GuildMemberAdd(p)
    \/ \E p \in AllGuildCreateEvents : GuildCreate(p)
    \/ \E p \in AllGuildUpdateEvents : GuildUpdate(p)
    \/ \E p \in AllGuildDeleteEvents : GuildDelete(p)
    \/ GetChannel(1)
    \/ GetGuildEmoji(1, 1)
    \/ GetGuildEmojis(1)
    \/ GetGuild(1)
    \/ GetGuildChannels(1)
    \/ GetMember(1, 1)
    \/ GetGuildRoles(1)
    \/ GetCurrentUser
    \/ GetUser(1)
    \/ CallerMutate

Spec == Init /\ [][Next]_vars

\* C2: a handler call that returns a decode error leaves the current user,
\* the channel map, the relationship index, the guild store and the user
\* store exactly as they were before the call.
C2_DecodeErrorLeavesState ==
    [][last'.err => cacheState' = cacheState]_vars

-----------------------------------------------------------------------------
(* GuildMemberAdd, GetGuild and GetMember running concurrently *)

At(q) == pc[q].at
Goto(q, r) == [pc EXCEPT ![q] = r]

concFrame == UNCHANGED <<CurrentUser, Channels, GuildChannelRelationship,
                         ReturnGetGuildMembers, ret, Locks>>

\* GuildMemberAdd up to c.Users.Unlock(): decode, then the user store.
AddStart(p) ==
    /\ Alive
    /\ At("GuildMemberAdd") = "idle"
    /\ IF DecodeMemberErr(p)
       THEN /\ UNCHANGED <<Users, pc>>
            /\ last' = Call("GuildMemberAdd", p, TRUE, FALSE, "decode")
       ELSE /\ Users' = addUser(Users, p)
            /\ pc' = Goto("GuildMemberAdd", [at |-> "lock", p |-> p])
            /\ UNCHANGED last
    /\ UNCHANGED <<Guilds, GuildsLock, obs, during>>
    /\ concFrame

\* Mutant of AddLock: the handler goes on without waiting for the lock.
AddLockUnchecked ==
    /\ Alive
    /\ At("GuildMemberAdd") = "lock"
    /\ GuildsLock' = "GuildMemberAdd"
    /\ LET p == pc["GuildMemberAdd"].p
       IN  pc' = Goto("GuildMemberAdd",
                      [at |-> "find", p |-> p,
                       before |-> IF p.guild_id \in DOMAIN Guilds
                                  THEN Guilds[p.guild_id].Members ELSE <<>>])
    /\ UNCHANGED <<Guilds, Users, last, obs, during>>
    /\ concFrame

\* c.Guilds.Lock().  before keeps the member list found on entry.
AddLock ==
    /\ Alive
    /\ At("GuildMemberAdd") = "lock"
    /\ GuildsLock = Free
    /\ GuildsLock' = "GuildMemberAdd"
    /\ LET p == pc["GuildMemberAdd"].p
       IN  pc' = Goto("GuildMemberAdd",
                      [at |-> "find", p |-> p,
                       before |-> IF p.guild_id \in DOMAIN Guilds
                                  THEN Guilds[p.guild_id].Members ELSE <<>>])
    /\ UNCHANGED <<Guilds, Users, last, obs, during>>
    /\ concFrame

\* The lookup and the write: json.Unmarshal(data, member) onto the listed
\* member, or the append of a copy.  Either way the member now carries the
\* payload's embedded user.
AddWrite ==
    /\ Alive
    /\ At("GuildMemberAdd") = "find"
    /\ LET a == pc["GuildMemberAdd"]
           g == a.p.guild_id
           i == MemberIndex(Guilds[g].Members, a.p.user_id)
           m == Member(a.p.user_id, a.p.nick, TRUE)
       IN  IF g \notin DOMAIN Guilds
           THEN /\ UNCHANGED Guilds
                /\ pc' = Goto("GuildMemberAdd",
                              [at |-> "unlock", p |-> a.p, before |-> a.before,
                               note |-> "noguild"])
           ELSE IF i # 0
           THEN /\ Guilds' = [Guilds EXCEPT ![g].Members[i] = m]
                /\ pc' = Goto("GuildMemberAdd",
                              [at |-> "clear", p |-> a.p, before |-> a.before,
                               note |-> "merge", idx |-> i])
           ELSE /\ Guilds' = [Guilds EXCEPT ![g].Members = Append(@, m),
                                            ![g].MemberCount = @ + 1]
                /\ pc' = Goto("GuildMemberAdd",
                              [at |-> "clear", p |-> a.p, before |-> a.before,
                               note |-> "append", idx |-> Len(Guilds[g].Members) + 1])
    /\ UNCHANGED <<Users, GuildsLock, last, obs, during>>
    /\ concFrame

\* member.User = nil
AddClear ==
    /\ Alive
    /\ At("GuildMemberAdd") = "clear"
    /\ LET a == pc["GuildMemberAdd"]
       IN  /\ Guilds' = [Guilds EXCEPT ![a.p.guild_id].Members[a.idx].User = FALSE]
           /\ pc' = Goto("GuildMemberAdd",
                         [at |-> "unlock", p |-> a.p, before |-> a.before,
                          note |-> a.note])
    /\ UNCHANGED <<Users, GuildsLock, last, obs, during>>
    /\ concFrame

\* The deferred c.Guilds.Unlock() and the return.
AddUnlock ==
    /\ Alive
    /\ At("GuildMemberAdd") = "unlock"
    /\ GuildsLock' = Free
    /\ pc' = Goto("GuildMemberAdd", Idle)
    /\ last' = Call("GuildMemberAdd", pc["GuildMemberAdd"].p, FALSE, FALSE,
                    pc["GuildMemberAdd"].note)
    /\ UNCHANGED <<Guilds, Users, obs>>
    /\ concFrame
    /\ TrackState

\* GuildMemberRemove: the decode.
RemoveStart(p) ==
    /\ Alive
    /\ At("GuildMemberRemove") = "idle"
    /\ IF DecodeMemberErr(p)
       THEN /\ UNCHANGED pc
            /\ last' = Call("GuildMemberRemove", p, TRUE, FALSE, "decode")
       ELSE /\ pc' = Goto("GuildMemberRemove", [at |-> "lock", p |-> p])
            /\ UNCHANGED last
    /\ UNCHANGED <<Guilds, Users, GuildsLock, obs, during>>
    /\ concFrame

\* c.Guilds.Lock()
RemoveLock ==
    /\ Alive
    /\ At("GuildMemberRemove") = "lock"
    /\ GuildsLock = Free
    /\ GuildsLock' = "GuildMemberRemove"
    /\ pc' = Goto("GuildMemberRemove", [at |-> "loop", p |-> pc["GuildMemberRemove"].p])
    /\ UNCHANGED <<Guilds, Users, last, obs, during>>
    /\ concFrame

\* The lookup and the loop over the member list, which may panic.  A member
\* taken off the list lives on, as it is, for a caller that holds it.
RemoveLoop ==
    /\ Alive
    /\ At("GuildMemberRemove") = "loop"
    /\ LET p == pc["GuildMemberRemove"].p
       IN  IF p.guild_id \in DOMAIN Guilds
           THEN LET g == Guilds[p.guild_id]
                    r == removeLoop(g.Members, g.MemberCount, 1, Len(g.Members), p.user_id)
                    i == MemberIndex(g.Members, p.user_id)
                    next == [at |-> "unlock", p |-> p, fault |-> r.fault,
                             note |-> IF i = 0 THEN "unknown" ELSE "remove"]
                    held == pc["GetMember"]
                IN  /\ Guilds' = [Guilds EXCEPT ![p.guild_id].Members = r.Members,
                                                ![p.guild_id].MemberCount = r.MemberCount]
                    /\ pc' = IF /\ held.at = "holds" /\ held.detached = <<>>
                                /\ held.guildID = p.guild_id /\ held.userID = p.user_id
                                /\ i # 0
                             THEN [pc EXCEPT !["GuildMemberRemove"] = next,
                                             !["GetMember"].detached = <<g.Members[i]>>]
                             ELSE Goto("GuildMemberRemove", next)
           ELSE /\ UNCHANGED Guilds
                /\ pc' = Goto("GuildMemberRemove",
                              [at |-> "unlock", p |-> p, fault |-> FALSE,
                               note |-> "noguild"])
    /\ UNCHANGED <<Users, GuildsLock, last, obs, during>>
    /\ concFrame

\* The deferred c.Guilds.Unlock() (it runs when the loop panicked, too) and
\* the return, or the panic leaving the handler.
RemoveUnlock ==
    /\ Alive
    /\ At("GuildMemberRemove") = "unlock"
    /\ GuildsLock' = Free
    /\ pc' = Goto("GuildMemberRemove", Idle)
    /\ last' = Call("GuildMemberRemove", pc["GuildMemberRemove"].p, FALSE,
                    pc["GuildMemberRemove"].fault, pc["GuildMemberRemove"].note)
    /\ UNCHANGED <<Guilds, Users, obs>>
    /\ concFrame
    /\ TrackState

\* A GetGuild call has the members of the guild it copies parked in
\* membersBefore, the stored list being empty meanwhile.
Parking(q) ==
    /\ q \in Readers
    /\ At(q) \in {"copy", "restore"}
    /\ ~ReturnGetGuildMembers

\* The member objects of guild g, wherever the list is just now.
LiveMembers(g) ==
    IF \E q \in Readers : Parking(q) /\ pc[q].id = g
    THEN pc[CHOOSE q \in Readers : Parking(q) /\ pc[q].id = g].membersBefore
    ELSE Guilds[g].Members

\* The member lists of guild g a read may see: the list as it is, or, while
\* a GuildMemberAdd is between its lock and its unlock, the list before the
\* add and the list after it.
WholeLists(g) ==
    LET a == pc["GuildMemberAdd"]
    IN  IF At("GuildMemberAdd") \in {"find", "clear", "unlock"} /\ a.p.guild_id = g
        THEN {a.before,
              addMember([Members |-> a.before, MemberCount |-> Len(a.before)], a.p).Members}
        ELSE {LiveMembers(g)}

Observe(q, val, whole) == MapSet(obs, q, [val |-> val, whole |-> whole])

\* GetGuild, run by reader q: c.Guilds.Lock(), the lookup, and the parking
\* of the members.
ReaderLock(q, id) ==
    /\ Alive
    /\ At(q) = "idle"
    /\ GuildsLock = Free
    /\ IF id \notin DOMAIN Guilds
       THEN /\ obs' = MapSet(obs, q, [val |-> <<>>, whole |-> {<<>>},
                                      ret |-> <<>>, states |-> {<<>>}])
            /\ last' = Call("GetGuild", <<id, 0>>, FALSE, FALSE, "read")
            /\ UNCHANGED <<Guilds, GuildsLock, pc, during>>
       ELSE /\ GuildsLock' = q
            /\ pc' = Goto(q, [at |-> "copy", id |-> id,
                              membersBefore |-> Guilds[id].Members])
            /\ Guilds' = IF ReturnGetGuildMembers THEN Guilds
                         ELSE [Guilds EXCEPT ![id].Members = <<>>]
            /\ during' = IF q = "GetGuild" THEN {GetGuildResult(id).val} ELSE during
            /\ UNCHANGED <<last, obs>>
    /\ UNCHANGED Users
    /\ concFrame

\* cpy := res.DeepCopy()
ReaderCopy(q) ==
    /\ Alive
    /\ At(q) = "copy"
    /\ LET r == pc[q]
       IN  pc' = Goto(q,
                      [at |-> "restore", id |-> r.id, membersBefore |-> r.membersBefore,
                       cpy |-> Guilds[r.id],
                       whole |-> IF ReturnGetGuildMembers
                                 THEN {<<l>> : l \in WholeLists(r.id)} ELSE {<< <<>> >>}])
    /\ UNCHANGED <<Guilds, Users, GuildsLock, last, obs, during>>
    /\ concFrame

\* The members go back, c.Guilds.Unlock().
ReaderUnlock(q) ==
    /\ Alive
    /\ At(q) = "restore"
    /\ LET r == pc[q]
       IN  /\ Guilds' = IF ReturnGetGuildMembers THEN Guilds
                        ELSE [Guilds EXCEPT ![r.id].Members = r.membersBefore]
           /\ pc' = Goto(q, [at |-> "channels", id |-> r.id, cpy |-> r.cpy,
                             whole |-> r.whole])
    /\ GuildsLock' = Free
    /\ UNCHANGED <<Users, last, obs, during>>
    /\ concFrame

\* The channels from GetGuildChannels, read under ChannelMu's read lock, and
\* the return of the copy.
ReaderReturn(q) ==
    /\ Alive
    /\ At(q) = "channels"
    /\ Locks.ChannelMu = Free
    /\ LET r == pc[q]
           channelsRes == GetGuildChannelsResult(r.id)
           res == IF channelsRes.fault THEN <<>>
                  ELSE IF channelsRes.val # <<>>
                  THEN <<[r.cpy EXCEPT !.Channels = channelsRes.val[1]]>>
                  ELSE <<r.cpy>>
       IN  /\ obs' = MapSet(obs, q, [val |-> <<r.cpy.Members>>, whole |-> r.whole,
                                     ret |-> res,
                                     states |-> IF q = "GetGuild" THEN during ELSE {res}])
           /\ last' = Call("GetGuild", <<r.id, 0>>, FALSE, channelsRes.fault, "read")
    /\ pc' = Goto(q, Idle)
    /\ during' = IF q = "GetGuild" THEN {} ELSE during
    /\ UNCHANGED <<Guilds, Users, GuildsLock>>
    /\ concFrame

GetGuildLock(id) == ReaderLock("GetGuild", id)
GetGuildCopy == ReaderCopy("GetGuild")
GetGuildUnlock == ReaderUnlock("GetGuild")
GetGuildReturn == ReaderReturn("GetGuild")

\* GetMember from Lock to the deferred Unlock: the pointer to the listed
\* member is returned.
GetMemberCall(guildID, userID) ==
    /\ Alive
    /\ At("GetMember") = "idle"
    /\ GuildsLock = Free
    /\ IF GetMemberResult(guildID, userID).val = <<>>
       THEN /\ obs' = Observe("GetMember", <<>>, {<<>>})
            /\ UNCHANGED pc
       ELSE /\ pc' = Goto("GetMember",
                          [at |-> "holds", guildID |-> guildID, userID |-> userID,
                           detached |-> <<>>])
            /\ UNCHANGED obs
    /\ last' = Call("GetMember", <<guildID, userID>>, FALSE, FALSE, "read")
    /\ UNCHANGED <<Guilds, Users, GuildsLock, during>>
    /\ concFrame

\* The caller reads the member it was handed, holding no lock.
CallerRead ==
    /\ Alive
    /\ At("GetMember") = "holds"
    /\ LET r == pc["GetMember"]
           ms == LiveMembers(r.guildID)
       IN  obs' = IF r.detached # <<>>
                  THEN Observe("GetMember", r.detached, {r.detached})
                  ELSE Observe("GetMember", <<ms[MemberIndex(ms, r.userID)]>>,
                               {<<l[i]>> : <<l, i>> \in
                                   {x \in WholeLists(r.guildID) \X UserIDs :
                                       /\ x[2] \in DOMAIN x[1]
                                       /\ x[1][x[2]].UserID = r.userID}})
    /\ pc' = Goto("GetMember", Idle)
    /\ UNCHANGED <<Guilds, Users, GuildsLock, last, during>>
    /\ concFrame

\* Guild Create for guild 1 arrives while no other operation is in flight.
ConcGuildCreate(p) ==
    /\ \A q \in Procs : At(q) = "idle"
    /\ GuildCreate(p)

ConcAddEvents == {MemberPayload(1, u, "y", "u") : u \in UserIDs}

NextConc ==
    \/ \E p \in MemberGuildEvents : ConcGuildCreate(p)
    \/ \E p \in ConcAddEvents : AddStart(p)
    \/ AddLock
    \/ AddWrite
    \/ AddClear
    \/ AddUnlock
    \/ GetGuildLock(1)
    \/ GetGuildCopy
    \/ GetGuildUnlock
    \/ GetGuildReturn
    \/ \E u \in UserIDs : GetMemberCall(1, u)
    \/ CallerRead

SpecConc == InitChannel /\ [][NextConc]_vars

\* C9: whatever the interleaving of GetGuild and GetMember with a
\* GuildMemberAdd on the guild, each read sees the member list, and each
\* member of it, as it was before the add or as it is after the add.
C9_ReadsSeeWholeAdd ==
    \A q \in DOMAIN obs : obs[q].val \in obs[q].whole

-----------------------------------------------------------------------------
(* Further properties of the member handlers *)

\* C11: GuildMemberRemove for a user the cached guild does not list, or for
\* a guild that is not cached, returns no error and leaves every store,
\* the member list and MemberCount included, as it was.
C11_RemoveUnknownIsNoOp ==
    [][(last'.op = "GuildMemberRemove" /\ last'.note \in {"unknown", "noguild"})
       => /\ ~last'.err /\ ~last'.fault
          /\ cacheState' = cacheState
      ]_vars

\* C11 witness: a remove for user 2 has returned while guild 1 lists user 1
\* only.
C11_Witness ==
    /\ last.op = "GuildMemberRemove" /\ last.note = "unknown"
    /\ last.p.guild_id = 1 /\ last.p.user_id = 2
    /\ 1 \in DOMAIN Guilds
    /\ Len(Guilds[1].Members) = 1 /\ Guilds[1].Members[1].UserID = 1
    /\ Guilds[1].MemberCount = 1

-----------------------------------------------------------------------------
(* Pin timestamps *)

\* Channels are created with or without a pin timestamp and deleted; pins
\* updates name any channel id and carry no timestamp ("zero"), one of two
\* timestamps, or a value that is no timestamp.
PinsChannelEvents == ChannelEventsOf(ChannelIDs, {"a"}, {"absent", "t1"})
PinsEvents ==
    PinsEventsOf(ChannelIDs, {"zero", "t1", "t2", "bad"}) \cup {MalformedPins}

NextPins ==
    \/ \E p \in PinsChannelEvents : ChannelCreate(p)
    \/ \E p \in ChannelDeleteEvents : ChannelDelete(p)
    \/ \E p \in PinsEvents : ChannelPinsUpdate(p)
    \/ \E c \in ChannelIDs : GetChannel(c)

SpecPins == InitChannel /\ [][NextPins]_vars

\* C12: ChannelPinsUpdate never inserts or removes a channel and never
\* touches the relationship index or another store.  With a zero timestamp
\* it changes nothing; with a non-zero one the stored channel with that id,
\* if there is one, gets the timestamp and keeps its other fields, and
\* every other channel stays as it was.
C12_PinsUpdateFrame ==
    [][last'.op = "ChannelPinsUpdate"
       => /\ ~last'.fault
          /\ <<CurrentUser, GuildChannelRelationship, Guilds, Users>>' =
                <<CurrentUser, GuildChannelRelationship, Guilds, Users>>
          /\ DOMAIN Channels' = DOMAIN Channels
          /\ \A c \in DOMAIN Channels :
                IF c = last'.p.channel_id /\ ~last'.err /\ last'.p.ts # "zero"
                THEN Channels'[c] = [Channels[c] EXCEPT !.LastPinTimestamp = last'.p.ts]
                ELSE Channels'[c] = Channels[c]
      ]_vars

\* C12 witness: channel 1, stored with timestamp t1, has taken t2 from a
\* pins update, next to another stored channel.
C12_Witness ==
    /\ last.op = "ChannelPinsUpdate" /\ last.note = "set"
    /\ last.p.channel_id = 1 /\ last.p.ts = "t2"
    /\ {1, 2} \subseteq DOMAIN Channels
    /\ Channels[1].LastPinTimestamp = "t2"
    /\ Channels[2].LastPinTimestamp = "t1"

-----------------------------------------------------------------------------
(* The relationship index and the channel map *)

C16_UnregisterKeepsOthers ==
    [][(/\ last'.op = "ChannelDelete" /\ ~last'.err
        /\ last'.p.guild_id # 0
        /\ last'.p.guild_id \in DOMAIN GuildChannelRelationship)
       => LET g == last'.p.guild_id
              l == GuildChannelRelationship[g]
              i == FirstIndex(l, last'.p.id)
              rest == IF i = 0 THEN l ELSE RemoveAt(l, i)
          IN  /\ (g \notin DOMAIN GuildChannelRelationship') <=> (rest = <<>>)
              /\ g \in DOMAIN GuildChannelRelationship' =>
                    GuildChannelRelationship'[g] = rest
      ]_vars

-----------------------------------------------------------------------------
(* MemberCount and the member list *)

\* Guild Create for guild 1 with the first j users listed and a member_count
\* of j or, for a large guild, of j + 1; Guild Update without the member
\* keys; member adds for any user and removals for the last user.
CountGuildEvents ==
    {WithMemberCount(p, Len(p.members) + d) : p \in MemberGuildEvents, d \in {0, 1}}
CountAddEvents == {MemberPayload(1, u, "y", "u") : u \in UserIDs}
CountRemoveEvents == {MemberPayload(1, NumUsers, "", "")}

NextCount ==
    \/ \E p \in CountGuildEvents : GuildCreate(p)
    \/ \E p \in GuildUpdateEvents : GuildUpdate(p)
    \/ \E p \in CountAddEvents : GuildMemberAdd(p)
    \/ \E p \in CountRemoveEvents : GuildMemberRemove(p)
    \/ GetGuild(1)

SpecCount == InitMember /\ [][NextCount]_vars

\* C17: when GuildCreate, GuildUpdate, GuildMemberAdd or GuildMemberRemove
\* has returned, every stored guild's MemberCount is the length of its
\* member list.
C17_MemberCountIsLength ==
    (/\ last.op \in {"GuildCreate", "GuildUpdate", "GuildMemberAdd", "GuildMemberRemove"}
     /\ ~last.fault)
        => \A g \in DOMAIN Guilds : Guilds[g].MemberCount = Len(Guilds[g].Members)

-----------------------------------------------------------------------------
(* Roles and emojis *)

\* Guild Create / Guild Update for guild 1 with the first j role ids and the
\* first k emoji ids; updates may carry the roles or the emojis only.
IdLists == {[i \in 1..j |-> i] : j \in 0..MaxRoles}
RoleGuildEvents ==
    {GuildPayload(1, FALSE, {"roles", "emojis"}, <<>>, <<>>, rs, es) :
        rs \in IdLists, es \in IdLists}
RoleUpdateEvents ==
    {GuildPayload(1, FALSE, {"roles"}, <<>>, <<>>, rs, <<>>) : rs \in IdLists}
        \cup {GuildPayload(1, FALSE, {"emojis"}, <<>>, <<>>, <<>>, es) : es \in IdLists}

NextRoles ==
    \/ \E p \in RoleGuildEvents : GuildCreate(p)
    \/ \E p \in RoleUpdateEvents : GuildUpdate(p)
    \/ \E p \in {GuildStub(1, TRUE)} : GuildDelete(p)
    \/ \E g \in GuildIDs : GetGuildRoles(g)
    \/ \E g \in GuildIDs : GetGuildEmojis(g)
    \/ \E e \in 1..MaxRoles : GetGuildEmoji(1, e)

SpecRoles == InitChannel /\ [][NextRoles]_vars

\* C20: GetGuildRoles for a cached guild completes without a fault and
\* returns the guild's roles, one entry per stored role, in stored order.
C20_RolesAsStored ==
    (last.op = "GetGuildRoles" /\ ret.a1 \in DOMAIN Guilds)
        => /\ ~last.fault
           /\ ret.val = <<Guilds[ret.a1].Roles>>

-----------------------------------------------------------------------------
(* GetGuild with the members not to be returned, among concurrent operations *)

InitToggleOff ==
    /\ InitCache
    /\ InitIdle
    /\ ReturnGetGuildMembers = FALSE

\* Guild 1 is created with every user as a member; adds name the first
\* user, removals the last.
ToggleGuildEvents ==
    {GuildFull(1, FALSE, [i \in 1..NumUsers |-> Member(i, "x", TRUE)], <<>>)}
ToggleAddEvents == {MemberPayload(1, 1, "y", "u")}
ToggleRemoveEvents == {MemberPayload(1, NumUsers, "", "")}

NextToggle ==
    \/ \E p \in ToggleGuildEvents : ConcGuildCreate(p)
    \/ \E p \in ToggleAddEvents : AddStart(p)
    \/ AddLock
    \/ AddWrite
    \/ AddClear
    \/ AddUnlock
    \/ \E p \in ToggleRemoveEvents : RemoveStart(p)
    \/ RemoveLock
    \/ RemoveLoop
    \/ RemoveUnlock
    \/ \E q \in Readers : ReaderLock(q, 1)
    \/ \E q \in Readers : ReaderCopy(q)
    \/ \E q \in Readers : ReaderUnlock(q)
    \/ \E q \in Readers : ReaderReturn(q)
    \/ \E u \in {1, NumUsers} : GetMemberCall(1, u)
    \/ CallerRead

SpecToggle == InitToggleOff /\ [][NextToggle]_vars

\* The positions at which an operation works on a guild's member list.
InCritical(q) ==
    CASE q = "GuildMemberAdd" -> At(q) \in {"find", "clear", "unlock"}
      [] q = "GuildMemberRemove" -> At(q) \in {"loop", "unlock"}
      [] q \in Readers -> At(q) \in {"copy", "restore"}
      [] OTHER -> FALSE

\* C13: with the member-return toggle off, a GetGuild has the stored member
\* list emptied only while it holds the guild lock and no other operation
\* is at work on the list; when it unlocks, the stored list is the list it
\* found, and the copy it goes on to return has no members.
C13_ParkedMembersUnseen ==
    /\ [](\A q \in Readers :
            Parking(q) => /\ GuildsLock = q
                          /\ \A r \in Procs \ {q} : ~InCritical(r))
    /\ [](GuildsLock = Free =>
            \A g \in DOMAIN Guilds : Guilds[g].Members = LiveMembers(g))
    /\ [][\A q \in Readers :
            (At(q) = "restore" /\ pc'[q].at = "channels")
                => /\ Guilds'[pc[q].id].Members = pc[q].membersBefore
                   /\ pc[q].cpy.Members = <<>>
                   /\ pc'[q].cpy = pc[q].cpy]_vars
    /\ [][\A q \in Readers :
            (At(q) = "channels" /\ pc'[q].at = "idle" /\ ~last'.fault)
                => /\ obs'[q].ret # <<>>
                   /\ obs'[q].ret[1].Members = <<>>
                   /\ UNCHANGED Guilds]_vars

\* C13 witness: a GetGuild has the two members of guild 1 parked and the
\* stored list empty while a GuildMemberAdd and a GuildMemberRemove wait
\* for the lock and a caller holds a member GetMember handed out.
C13_Witness ==
    /\ Parking("GetGuild") /\ At("GetGuild") = "restore"
    /\ Len(pc["GetGuild"].membersBefore) = 2
    /\ Guilds[1].Members = <<>>
    /\ At("GuildMemberAdd") = "lock"
    /\ At("GuildMemberRemove") = "lock"
    /\ At("GetMember") = "holds"
    /\ "GetGuild2" \in DOMAIN obs

-----------------------------------------------------------------------------
(* GetGuild beside the guild and channel handlers *)

\* A handler that takes c.Guilds' lock runs once that lock is free; it holds
\* the lock from its first access to its return.
ReadGuildEvents ==
    {GuildStub(1, TRUE),
     GuildFull(1, FALSE, <<>>, <<ChannelPayload(1, "a", "absent")>>)}
ReadGuildDeleteEvents == {GuildStub(1, TRUE)}
ReadChannelEvents == ChannelEventsOf({1}, {"a"}, {"absent"})

ReadGuildCreate(p) ==
    /\ GuildsLock = Free
    /\ GuildCreate(p)

ReadGuildDelete(p) ==
    /\ GuildsLock = Free
    /\ GuildDelete(p)

NextRead ==
    \/ \E p \in ReadGuildEvents : ReadGuildCreate(p)
    \/ \E p \in ReadGuildDeleteEvents : ReadGuildDelete(p)
    \/ \E p \in ReadChannelEvents : ChannelCreate(p)
    \/ \E p \in ReadChannelEvents : ChannelDelete(p)
    \/ GetGuildLock(1)
    \/ GetGuildCopy
    \/ GetGuildUnlock
    \/ GetGuildReturn

SpecRead == InitChannel /\ [][NextRead]_vars

\* C19: the guild a GetGuild call returns, channel list included, is what
\* GetGuild would have returned in one of the cache states that existed
\* between two handler executions while the call ran.
C19_GetGuildIsAtomic ==
    "GetGuild" \in DOMAIN obs => obs["GetGuild"].ret \in obs["GetGuild"].states

-----------------------------------------------------------------------------
(* The locks: every operation as the lock calls it makes, in order *)

\* The goroutines that call into the cache.
Workers == {"w1", "w2", "w3"}

Lock(m) == <<"Lock", m>>
Unlock(m) == <<"Unlock", m>>
RLock(m) == <<"RLock", m>>
RUnlock(m) == <<"RUnlock", m>>

\* One control path of a handler that takes a single mutex and releases it
\* by defer (a panic on the path unwinds through the same Unlock).
Guarded(m) == <<Lock(m), Unlock(m)>>

\* The path no lock is taken on: the payload fails to decode.
NoLocks == <<>>

\* GuildCreate.setChannels and GuildDelete: c.ChannelMu inside c.Guilds, the
\* deferred Unlock of c.ChannelMu running first.
ChannelsInsideGuilds ==
    <<Lock("Guilds"), Lock("ChannelMu"), Unlock("ChannelMu"), Unlock("Guilds")>>

\* The order is turned round: c.Guilds inside c.ChannelMu.
GuildsInsideChannels ==
    {NoLocks,
     <<Lock("ChannelMu"), Lock("Guilds"), Unlock("Guilds"), Unlock("ChannelMu")>>}

GuildDeleteScripts == {NoLocks, ChannelsInsideGuilds}

\* The lock calls of each operation, one sequence for each control path.
Scripts(op) ==
    CASE op = "Ready" -> {Guarded("CurrentUserMu")}
      [] op = "UserUpdate" -> {Guarded("CurrentUserMu")}
      [] op = "GetCurrentUser" -> {Guarded("CurrentUserMu")}
      [] op = "VoiceServerUpdate" -> {NoLocks}
      [] op \in {"ChannelCreate", "ChannelUpdate", "ChannelDelete", "ChannelPinsUpdate"}
            -> {NoLocks, Guarded("ChannelMu")}
      [] op \in {"GuildMemberRemove", "GuildUpdate"} -> {NoLocks, Guarded("Guilds")}
      [] op = "GuildMemberAdd"
            -> {NoLocks, Guarded("Users") \o Guarded("Guilds")}
      [] op = "GuildCreate" -> {NoLocks, Guarded("Guilds"), ChannelsInsideGuilds}
      [] op = "GuildDelete" -> GuildDeleteScripts
      [] op \in {"GetChannel", "GetGuildChannels"}
            -> {<<RLock("ChannelMu"), RUnlock("ChannelMu")>>}
      [] op \in {"GetGuildEmoji", "GetGuildEmojis", "GetMember", "GetGuildRoles"}
            -> {Guarded("Guilds")}
      [] op = "GetGuild"
            -> {Guarded("Guilds"),
                Guarded("Guilds") \o <<RLock("ChannelMu"), RUnlock("ChannelMu")>>}
      [] op = "GetUser" -> {Guarded("Users")}

Operations ==
    {"Ready", "UserUpdate", "GetCurrentUser", "VoiceServerUpdate",
     "ChannelCreate", "ChannelUpdate", "ChannelDelete", "ChannelPinsUpdate",
     "GuildMemberRemove", "GuildUpdate", "GuildMemberAdd", "GuildCreate",
     "GuildDelete", "GetChannel", "GetGuildChannels", "GetGuildEmoji",
     "GetGuildEmojis", "GetMember", "GetGuildRoles", "GetGuild", "GetUser"}

InitLocks ==
    /\ InitCache
    /\ ReturnGetGuildMembers = TRUE
    /\ pc = [w \in Workers |-> Idle]
    /\ GuildsLock = Free
    /\ obs = EmptyMap
    /\ Locks = [ChannelMu |-> Free, ChannelMuReaders |-> {}, Users |-> Free,
                CurrentUserMu |-> Free]
    /\ during = {}

lockFrame == UNCHANGED <<seqVars, obs, during>>

\* Who holds mutex m for writing.
Holder(m) == IF m = "Guilds" THEN GuildsLock ELSE Locks[m]

SetHolder(m, w) ==
    IF m = "Guilds"
    THEN GuildsLock' = w /\ UNCHANGED Locks
    ELSE Locks' = [Locks EXCEPT ![m] = w] /\ UNCHANGED GuildsLock

Running(w) == At(w) = "run"
NextCall(w) == pc[w].script[pc[w].i]
Advance(w) ==
    IF pc[w].i = Len(pc[w].script)
    THEN Goto(w, [at |-> "done"])
    ELSE Goto(w, [pc[w] EXCEPT !.i = @ + 1, !.entered = FALSE])

\* Worker w calls op; the path it takes fixes its lock calls, and they are
\* all that is kept of the call.
WorkerStart(w, op, script) ==
    /\ At(w) = "idle"
    /\ script \in Scripts(op)
    /\ pc' = Goto(w, IF script = <<>> THEN [at |-> "done"]
                     ELSE [at |-> "run", script |-> script, i |-> 1,
                           entered |-> FALSE])
    /\ UNCHANGED <<GuildsLock, Locks>>
    /\ lockFrame

\* sync.Mutex.Lock, and the first half of sync.RWMutex.Lock: the mutex is
\* taken once no one holds it. A RWMutex so taken admits no new reader.
WorkerLock(w) ==
    /\ Running(w)
    /\ NextCall(w)[1] = "Lock"
    /\ ~pc[w].entered
    /\ Holder(NextCall(w)[2]) = Free
    /\ SetHolder(NextCall(w)[2], w)
    /\ pc' = IF NextCall(w)[2] = "ChannelMu"
             THEN Goto(w, [pc[w] EXCEPT !.entered = TRUE])
             ELSE Advance(w)
    /\ lockFrame

\* The second half of sync.RWMutex.Lock: the writer goes on once the readers
\* that were in have left.
WorkerDrain(w) ==
    /\ Running(w)
    /\ NextCall(w) = Lock("ChannelMu")
    /\ pc[w].entered
    /\ Locks.ChannelMuReaders = {}
    /\ pc' = Advance(w)
    /\ UNCHANGED <<GuildsLock, Locks>>
    /\ lockFrame

WorkerUnlock(w) ==
    /\ Running(w)
    /\ NextCall(w)[1] = "Unlock"
    /\ SetHolder(NextCall(w)[2], Free)
    /\ pc' = Advance(w)
    /\ lockFrame

\* sync.RWMutex.RLock: a reader gets in while no writer holds or awaits the
\* mutex.
WorkerRLock(w) ==
    /\ Running(w)
    /\ NextCall(w) = RLock("ChannelMu")
    /\ Locks.ChannelMu = Free
    /\ Locks' = [Locks EXCEPT !.ChannelMuReaders = @ \cup {w}]
    /\ pc' = Advance(w)
    /\ UNCHANGED GuildsLock
    /\ lockFrame

WorkerRUnlock(w) ==
    /\ Running(w)
    /\ NextCall(w) = RUnlock("ChannelMu")
    /\ Locks' = [Locks EXCEPT !.ChannelMuReaders = @ \ {w}]
    /\ pc' = Advance(w)
    /\ UNCHANGED GuildsLock
    /\ lockFrame

\* The operation returns to its caller.
WorkerReturn(w) ==
    /\ At(w) = "done"
    /\ pc' = Goto(w, Idle)
    /\ UNCHANGED <<GuildsLock, Locks>>
    /\ lockFrame

WorkerStep(w) ==
    \/ WorkerLock(w)
    \/ WorkerDrain(w)
    \/ WorkerUnlock(w)
    \/ WorkerRLock(w)
    \/ WorkerRUnlock(w)
    \/ WorkerReturn(w)

NextLocks ==
    \/ \E w \in Workers, op \in Operations : \E script \in Scripts(op) :
           WorkerStart(w, op, script)
    \/ \E w \in Workers : WorkerLock(w)
    \/ \E w \in Workers : WorkerDrain(w)
    \/ \E w \in Workers : WorkerUnlock(w)
    \/ \E w \in Workers : WorkerRLock(w)
    \/ \E w \in Workers : WorkerRUnlock(w)
    \/ \E w \in Workers : WorkerReturn(w)

\* The Go scheduler runs every runnable goroutine, and a goroutine waiting
\* for a mutex that is released again and again gets it in the end
\* (sync.Mutex hands the mutex to a starving waiter).
SpecLocks ==
    /\ InitLocks
    /\ [][NextLocks]_vars
    /\ \A w \in Workers : SF_vars(WorkerStep(w))

MutexNames == {"Guilds", "ChannelMu", "Users", "CurrentUserMu"}

\* The mutexes worker w holds, the read side of c.ChannelMu included. A
\* writer waiting for the readers to leave does not hold c.ChannelMu yet.
Held(w) ==
    {m \in MutexNames :
        \/ /\ Holder(m) = w
           /\ ~(m = "ChannelMu" /\ Running(w) /\ NextCall(w) = Lock("ChannelMu"))
        \/ m = "ChannelMu" /\ w \in Locks.ChannelMuReaders}

\* The mutex worker w is about to take or is waiting for, if any.
Wanted(w) ==
    IF Running(w) /\ NextCall(w)[1] \in {"Lock", "RLock"}
    THEN {NextCall(w)[2]} ELSE {}

\* C18: a worker that takes or awaits a mutex holds nothing, or holds
\* c.Guilds and wants c.ChannelMu; c.Users and c.Guilds are never held
\* together; a worker that is in no operation holds no mutex; while an
\* operation is in flight some worker can take a step; and every operation
\* that was started returns.
C18_NoDeadlock ==
    /\ [](\A w \in Workers :
            /\ Wanted(w) # {} =>
                   \/ Held(w) = {}
                   \/ Held(w) = {"Guilds"} /\ Wanted(w) = {"ChannelMu"}
            /\ ~({"Users", "Guilds"} \subseteq Held(w))
            /\ At(w) \in {"idle", "done"} => Held(w) = {})
    /\ []((\E w \in Workers : At(w) # "idle")
            => \E w \in Workers : ENABLED WorkerStep(w))
    /\ \A w \in Workers : (At(w) # "idle") ~> (At(w) = "idle")

\* C18 witness: a GuildDelete (or a GuildCreate that sets the channels)
\* holds c.Guilds and waits inside c.ChannelMu.Lock() for a GetGuild that
\* reads the channels, while a GuildMemberAdd that is through with c.Users
\* waits for c.Guilds.
C18_Witness ==
    /\ Running("w1") /\ pc["w1"].script = ChannelsInsideGuilds
    /\ Held("w1") = {"Guilds"} /\ Wanted("w1") = {"ChannelMu"} /\ pc["w1"].entered
    /\ Running("w2") /\ pc["w2"].script \in Scripts("GetGuild")
    /\ Held("w2") = {"ChannelMu"}
    /\ Running("w3") /\ pc["w3"].script \in Scripts("GuildMemberAdd")
    /\ Held("w3") = {} /\ Wanted("w3") = {"Guilds"}

=============================================================================
